---- MODULE Spec2Model ----
(***************************************************************************)
(* State-machine model of oadr2/poll.py (class OpenADR2): the constructor, *)
(* exit(), the poll thread (poll_vtn_loop / query_vtn / send_reply) and    *)
(* the control thread (control_event_loop / do_control / toggle_relays /   *)
(* get_current_relay_level).                                               *)
(*                                                                         *)
(* Three specifications share the variables:                               *)
(*   Spec       the whole runtime: caller, poll thread, control thread,    *)
(*              one control evaluation being one step;                     *)
(*   SpecEval   one evaluation of the control thread, do_control taken     *)
(*              one event at a time and toggle_relays one point at a time; *)
(*   SpecRelay  the control loop alone, writing level after level to the   *)
(*              relays one point at a time.                                *)
(*                                                                         *)
(* Numbers that are levels are kept in halves (level 2.5 is 5), so that    *)
(* the non-integral levels of toggle_relays stay integers here.            *)
(***************************************************************************)
EXTENDS Integers, Sequences, FiniteSets, TLC

\* ---------------------------------------------------------------- bounds
\* len(control.event_levels): the number of control points (relays).
NumRelays == 2
\* The most events get_active_events() returns in one evaluation.
MaxEvents == 2

\* ------------------------------------------------------ program constants
DEFAULT_VTN_POLL_INTERVAL == 300

\* ------------------------------------------------------- optional values
\* Python None and a present value, kept apart from the value's own type.
None == <<>>
Some(x) == <<x>>
Val(o) == o[1]

Max(a, b) == IF a < b THEN b ELSE a

\* ---------------------------------------------------- int() and float()
DigitChars == <<"0", "1", "2", "3", "4", "5", "6", "7", "8", "9">>
IsDigit(c) == \E d \in 1..10 : DigitChars[d] = c
DigitVal(c) == (CHOOSE d \in 1..10 : DigitChars[d] = c) - 1
AllDigits(s) == Len(s) > 0 /\ \A i \in 1..Len(s) : IsDigit(s[i])

RECURSIVE DigitsVal(_)
DigitsVal(s) ==
    IF s = <<>> THEN 0
    ELSE 10 * DigitsVal(SubSeq(s, 1, Len(s) - 1)) + DigitVal(s[Len(s)])

\* int() of a text: an optional sign, then digits and nothing else.
IntOfText(s) ==
    IF Len(s) > 0 /\ s[1] = "-"
    THEN IF AllDigits(Tail(s))
         THEN [ok |-> TRUE, val |-> 0 - DigitsVal(Tail(s))]
         ELSE [ok |-> FALSE, val |-> 0]
    ELSE IF AllDigits(s)
         THEN [ok |-> TRUE, val |-> DigitsVal(s)]
         ELSE [ok |-> FALSE, val |-> 0]

\* The constructor's vtn_poll_interval argument: an int, a text or None.
IntIn(n) == [t |-> "int", v |-> n]
StrIn(s) == [t |-> "str", s |-> s]
NoneIn == [t |-> "none"]

\* int(vtn_poll_interval) of line 77: ok, or the ValueError / TypeError.
int(x) ==
    IF x.t = "int" THEN [ok |-> TRUE, val |-> x.v]
    ELSE IF x.t = "str" THEN IntOfText(x.s)
    ELSE [ok |-> FALSE, val |-> 0]

PollIntervalInputs ==
    { IntIn(300), IntIn(60), IntIn(0), IntIn(-1),
      StrIn(<<"6", "0">>), StrIn(<<"-", "5">>), StrIn(<<"a", "b", "c">>),
      StrIn(<<>>), StrIn(<<"6", ".", "5">>), NoneIn }

\* Position of the first "." in a text, 0 when there is none.
DotAt(s) ==
    IF \E i \in 1..Len(s) : s[i] = "."
    THEN CHOOSE i \in 1..Len(s) : s[i] = "." /\ \A j \in 1..(i - 1) : s[j] # "."
    ELSE 0

\* float() of a level text, in halves: digits, or digits "." and one of the
\* fraction digits 0 and 5 (the level texts of this model have no other).
float(s) ==
    LET d == DotAt(s) IN
    IF d = 0
    THEN IF AllDigits(s)
         THEN [ok |-> TRUE, val |-> 2 * DigitsVal(s)]
         ELSE [ok |-> FALSE, val |-> 0]
    ELSE LET ip == SubSeq(s, 1, d - 1)
             fp == SubSeq(s, d + 1, Len(s))
         IN  IF AllDigits(ip) /\ fp \in {<<"0">>, <<"5">>}
             THEN [ok |-> TRUE,
                   val |-> 2 * DigitsVal(ip) + (IF fp = <<"5">> THEN 1 ELSE 0)]
             ELSE [ok |-> FALSE, val |-> 0]

\* The level texts an interval of an event may carry.
LevelTexts == { <<"1">>, <<"1", ".", "5">>, <<"5">>, <<"x">> }
\* The third member of a signal tuple: None, or a text.
RawLevels == {None} \cup {Some(t) : t \in LevelTexts}

\* ------------------------------------------------------------- the relays
Relays == 1..NumRelays
RelayPatterns == [Relays -> {0, 1}]

\* Line 344, for the point of Python index i and a level in halves.
control_val(i, signal_level) == IF 2 * i < signal_level THEN 1 ELSE 0

\* The pattern after the control_set operations of the Python indices
\* 0 .. k-1 of the loop of lines 343-345.
WriteUpTo(rel, signal_level, k) ==
    [p \in Relays |-> IF p <= k THEN control_val(p - 1, signal_level) ELSE rel[p]]

\* toggle_relays (lines 339-347) as one step. fail_at is the Python index of
\* the control_set operation that raises, NumRelays when none does.
toggle_relays(rel, cur, signal_level, fail_at) ==
    IF signal_level = cur
    THEN [relays |-> rel, cur |-> cur, ops |-> 0, raised |-> FALSE]
    ELSE IF fail_at < NumRelays
    THEN [relays |-> WriteUpTo(rel, signal_level, fail_at), cur |-> cur,
          ops |-> fail_at + 1, raised |-> TRUE]
    ELSE [relays |-> WriteUpTo(rel, signal_level, NumRelays), cur |-> signal_level,
          ops |-> NumRelays, raised |-> FALSE]

\* get_current_relay_level (lines 358-363), scanning from Python index i-1
\* down. fail_at is the Python index whose control_get raises.
RECURSIVE scan_relays(_, _, _)
scan_relays(rel, i, fail_at) ==
    IF i = 0 THEN [ok |-> TRUE, val |-> 0]
    ELSE IF fail_at = i - 1 THEN [ok |-> FALSE, val |-> 0]
    ELSE IF rel[i] = 1 THEN [ok |-> TRUE, val |-> i]
    ELSE scan_relays(rel, i - 1, fail_at)

\* A scan from the lowest index up, returning at the first point found on.
get_current_relay_level_upward(rel, fail_at) ==
    IF \A p \in Relays : rel[p] = 0
    THEN scan_relays(rel, NumRelays, fail_at)
    ELSE LET low == CHOOSE p \in Relays :
                        rel[p] = 1 /\ \A q \in Relays : q < p => rel[q] = 0
         IN  IF fail_at < low THEN [ok |-> FALSE, val |-> 0]
             ELSE [ok |-> TRUE, val |-> low]

get_current_relay_level(rel, fail_at) == scan_relays(rel, NumRelays, fail_at)

\* The levels do_control can hand to toggle_relays: 0, or a parsed text.
EvalLevels == {0} \cup {float(t).val : t \in {u \in LevelTexts : float(u).ok}}


\* ------------------------------------------------------------------ state
VARIABLES
    poll_input,             \* the vtn_poll_interval argument of __init__
    start_thread,           \* the start_thread argument of __init__
    vtn_base_uri,           \* TRUE when a base URI was given
    vtn_poll_interval,      \* self.vtn_poll_interval: None until assigned
    exit_flag,              \* self._exit (threading.Event)
    control_loop_signal,    \* self._control_loop_signal (threading.Event)
    apiPc,                  \* where the caller of __init__ / exit() is
    pollPc,                 \* where the thread oadr2.poll is
    ctlPc,                  \* where the thread oadr2.control is
    relays,                 \* the control points, as the driver holds them
    current_signal_level,   \* self.current_signal_level, in halves
    ctl_caught,             \* the evaluation before ended in the except clause of line 261
    \* do_control and toggle_relays taken step by step:
    ev_total,               \* len(events) of the evaluation under way
    ev_n,                   \* events of it the loop of line 279 has taken
    highest_signal_val,     \* line 277, in halves
    remove_events,          \* line 278: the ids collected for removal
    signal_level,           \* argument of the last toggle_relays call, or None
    ti,                     \* loop index i of line 343
    \* what happened, kept for the properties:
    act_levels,             \* levels of the active intervals met in this evaluation
    ended_ids,              \* ids of the ended events met in this evaluation
    last_class,             \* how the event taken last is classed
    wr_prev,                \* current_signal_level when toggle_relays was entered
    wr_ops,                 \* control_set operations issued by that call
    wr_state,               \* "none", "running", "returned" or "raised"
    wr_before,              \* level of the call before it when that one returned
    wr_failed,              \* level of the call before it when that one raised
    rd,                     \* what get_current_relay_level returned last, or None
    \* the poll cycle under way, kept until its wait of line 181 ends:
    q_out,                  \* what query_vtn came to in this cycle
    q_ctype_ok,             \* the response had the expected content type
    q_uri,                  \* where the query went
    r_uri,                  \* where the reply went
    cycle_notified,         \* this cycle set _control_loop_signal
    cycle_replies,          \* send_reply calls of this cycle
    \* the two threads against each other:
    pending_wake,           \* a cycle signalled an update no evaluation has fetched since
    sig_returns             \* returns of the wait of line 264 on a set signal, since
                            \* the signal was last set (saturating at 2)

stepVars == << ev_total, ev_n, highest_signal_val, remove_events, signal_level, ti >>
histVars == << act_levels, ended_ids, last_class, wr_prev, wr_ops, wr_state,
               wr_before, wr_failed, rd >>

cycleVars == << q_out, q_ctype_ok, q_uri, r_uri, cycle_notified, cycle_replies >>
raceVars == << pending_wake, sig_returns >>

vars == << poll_input, start_thread, vtn_base_uri, vtn_poll_interval, exit_flag,
           control_loop_signal, apiPc, pollPc, ctlPc, relays,
           current_signal_level, ctl_caught, stepVars, histVars, cycleVars,
           raceVars >>

cfgVars == << poll_input, start_thread, vtn_base_uri >>
evalVars == << stepVars, histVars >>
obsVars == << cycleVars, raceVars >>

UpTo2(n) == IF n < 2 THEN n + 1 ELSE 2
relayVars == << relays, current_signal_level >>

\* ------------------------------------------------------------ constructor
\* Lines 76-80. The handler of line 78 reads self.vtn_poll_interval in line
\* 79, before any assignment to it: the AttributeError leaves __init__.
init_poll_interval(x) ==
    LET r == int(x) IN
    IF r.ok THEN [raised |-> FALSE, val |-> Some(r.val)]
    ELSE [raised |-> TRUE, val |-> None]

\* __init__ (lines 71-117) with _init_client (lines 126-148).
Construct ==
    /\ apiPc = "new"
    /\ LET r == init_poll_interval(poll_input) IN
       IF r.raised
       THEN /\ apiPc' = "ctor_raised"
            /\ UNCHANGED << vtn_poll_interval, pollPc, ctlPc >>
       ELSE /\ vtn_poll_interval' = r.val
            /\ pollPc' = IF start_thread THEN "check" ELSE "unstarted"
            /\ ctlPc' = IF start_thread THEN "grace" ELSE "none"
            /\ apiPc' = "ready"
    /\ UNCHANGED << cfgVars, evalVars, exit_flag, control_loop_signal, relayVars,
                    ctl_caught, obsVars >>

\* ----------------------------------------------------------------- exit()
\* Line 156.
ExitSetSignal ==
    /\ apiPc \in {"ready", "returned"}
    /\ control_loop_signal' = TRUE
    /\ sig_returns' = 0
    /\ apiPc' = "exit_join_control"
    /\ UNCHANGED << cfgVars, evalVars, vtn_poll_interval, exit_flag, pollPc, ctlPc,
                    relayVars, ctl_caught, cycleVars, pending_wake >>

\* Line 157: join(2) returns when the thread has ended or after 2 seconds;
\* self.control_thread is None when start_thread was false.
ExitJoinControl ==
    /\ apiPc = "exit_join_control"
    /\ apiPc' = IF ctlPc = "none" THEN "exit_raised" ELSE "exit_join_poll"
    /\ UNCHANGED << cfgVars, evalVars, vtn_poll_interval, exit_flag, control_loop_signal,
                    pollPc, ctlPc, relayVars, ctl_caught, obsVars >>

\* Lines 158-159: joining a thread that was never started raises.
ExitJoinPoll ==
    /\ apiPc = "exit_join_poll"
    /\ apiPc' = IF pollPc = "unstarted" THEN "exit_raised" ELSE "exit_set"
    /\ UNCHANGED << cfgVars, evalVars, vtn_poll_interval, exit_flag, control_loop_signal,
                    pollPc, ctlPc, relayVars, ctl_caught, obsVars >>

\* Line 160.
ExitSetExit ==
    /\ apiPc = "exit_set"
    /\ exit_flag' = TRUE
    /\ apiPc' = "returned"
    /\ UNCHANGED << cfgVars, evalVars, vtn_poll_interval, control_loop_signal, pollPc,
                    ctlPc, relayVars, ctl_caught, obsVars >>

\* ------------------------------------------------------------ poll thread
pollUnchanged == << cfgVars, evalVars, vtn_poll_interval, exit_flag, apiPc, ctlPc,
                    relayVars, ctl_caught, sig_returns >>

\* A loop test that does not look at _exit.
PollLoopCheck_forever ==
    /\ pollPc = "check"
    /\ pollPc' = "query"
    /\ UNCHANGED << pollUnchanged, control_loop_signal, cycleVars, pending_wake >>

\* Line 168.
PollLoopCheck ==
    /\ pollPc = "check"
    /\ pollPc' = IF exit_flag THEN "exited" ELSE "query"
    /\ UNCHANGED << pollUnchanged, control_loop_signal, cycleVars, pending_wake >>

\* What lines 195-217 of query_vtn can come to.
QueryOutcomes ==
    {"build_error", "http_error", "url_error", "other_error",
     "parse_error", "no_reply", "reply"}

\* Line 194 with OADR2_URI_PATH (line 20), after the base URI.
event_uri == "OpenADR2/Simple/EiEvent"

\* Where the except clauses of lines 172-179 leave the thread. The clause
\* for HTTPError reads the error body (ex.read(), line 173) outside any
\* try: when that read fails, the exception leaves poll_vtn_loop.
poll_loop_except(kind) ==
    IF kind = "http_error" THEN "http_error_body" ELSE "wait"

\* A query_vtn that goes on to lines 220-223 after a parse failure.
query_next_unparsed(out, content_type_ok) ==
    IF out \in {"build_error", "http_error", "url_error", "other_error"}
    THEN poll_loop_except(out)
    ELSE IF out \in {"reply", "parse_error"} THEN "notify" ELSE "wait"

\* A query_vtn that sends its reply without line 222.
query_next_unnotified(out, content_type_ok) ==
    IF out \in {"build_error", "http_error", "url_error", "other_error"}
    THEN poll_loop_except(out)
    ELSE IF out = "reply" THEN "send_reply" ELSE "wait"

\* Where query_vtn goes from what lines 195-217 came to: to an except clause
\* of the loop, to lines 220-223 with a reply, or back to the loop. The
\* content type only decides the warning of line 209.
query_next(out, content_type_ok) ==
    IF out \in {"build_error", "http_error", "url_error", "other_error"}
    THEN poll_loop_except(out)
    ELSE IF out = "reply" THEN "notify" ELSE "wait"

\* query_vtn up to line 217, with the except clauses of the loop.
PollQuery ==
    /\ pollPc = "query"
    /\ IF ~vtn_base_uri
       THEN /\ pollPc' = "wait"
            /\ q_out' = "skipped"
            /\ q_ctype_ok' = TRUE
            /\ q_uri' = ""
       ELSE \E out \in QueryOutcomes, content_type_ok \in BOOLEAN :
              /\ pollPc' = query_next(out, content_type_ok)
              /\ q_out' = IF out \in {"parse_error", "no_reply", "reply"}
                           THEN out ELSE "error"
              /\ q_ctype_ok' = (content_type_ok
                                \/ out \notin {"parse_error", "no_reply", "reply"})
              /\ q_uri' = IF out = "build_error" THEN "" ELSE event_uri
    /\ r_uri' = ""
    /\ cycle_notified' = FALSE
    /\ cycle_replies' = 0
    /\ UNCHANGED << pollUnchanged, control_loop_signal, pending_wake >>

\* Lines 220-222.
PollNotify ==
    /\ pollPc = "notify"
    /\ control_loop_signal' = TRUE
    /\ cycle_notified' = TRUE
    /\ pending_wake' = TRUE
    /\ sig_returns' = 0
    /\ pollPc' = "send_reply"
    /\ UNCHANGED << cfgVars, evalVars, vtn_poll_interval, exit_flag, apiPc, ctlPc,
                    relayVars, ctl_caught, q_out, q_ctype_ok, q_uri,
                    r_uri, cycle_replies >>

\* Line 223, send_reply (lines 235-237): the reply goes to the uri of line 194.
PollSendReply ==
    /\ pollPc = "send_reply"
    /\ \E out \in {"ok", "http_error", "url_error", "other_error"} :
         pollPc' = IF out = "ok" THEN "wait" ELSE poll_loop_except(out)
    /\ r_uri' = q_uri
    /\ cycle_replies' = UpTo2(cycle_replies)
    /\ UNCHANGED << pollUnchanged, control_loop_signal, pending_wake,
                    q_out, q_ctype_ok, q_uri, cycle_notified >>

\* Line 173: ex.read() on the HTTPError, then the warning.
PollHttpError ==
    /\ pollPc = "http_error_body"
    /\ \E read_ok \in BOOLEAN : pollPc' = IF read_ok THEN "wait" ELSE "dead"
    /\ UNCHANGED << pollUnchanged, control_loop_signal, cycleVars, pending_wake >>

\* No cycle under way.
NoCycle ==
    /\ q_out = "none"
    /\ q_ctype_ok = TRUE
    /\ q_uri = ""
    /\ r_uri = ""
    /\ cycle_notified = FALSE
    /\ cycle_replies = 0

\* A wait of the poll thread that consumes the signal.
PollWait_consuming ==
    /\ pollPc = "wait"
    /\ pollPc' = "check"
    /\ control_loop_signal' = FALSE
    /\ q_out' = "none"
    /\ q_ctype_ok' = TRUE
    /\ q_uri' = ""
    /\ r_uri' = ""
    /\ cycle_notified' = FALSE
    /\ cycle_replies' = 0
    /\ UNCHANGED << pollUnchanged, pending_wake >>

\* Line 181: returns at the timeout, or earlier once _exit is set.
PollWait ==
    /\ pollPc = "wait"
    /\ pollPc' = "check"
    /\ q_out' = "none"
    /\ q_ctype_ok' = TRUE
    /\ q_uri' = ""
    /\ r_uri' = ""
    /\ cycle_notified' = FALSE
    /\ cycle_replies' = 0
    /\ UNCHANGED << pollUnchanged, control_loop_signal, pending_wake >>

\* --------------------------------------------------------- control thread
ctlUnchanged == << cfgVars, vtn_poll_interval, exit_flag, apiPc, pollPc >>
ctlOnly == << ctlUnchanged, evalVars, cycleVars >>

\* Line 247.
CtlGrace ==
    /\ ctlPc = "grace"
    /\ ctlPc' = "initread"
    /\ UNCHANGED << ctlOnly, control_loop_signal, relayVars, ctl_caught,
                    pending_wake, sig_returns >>

\* Lines 249-253: a failed read leaves current_signal_level as it was.
CtlInitRead ==
    /\ ctlPc = "initread"
    /\ \E fail_at \in 0..NumRelays :
         LET r == get_current_relay_level(relays, fail_at) IN
         current_signal_level' = IF r.ok THEN 2 * r.val ELSE current_signal_level
    /\ ctlPc' = "check"
    /\ UNCHANGED << ctlOnly, control_loop_signal, relays, ctl_caught,
                    pending_wake, sig_returns >>

\* Line 255.
CtlLoopCheck ==
    /\ ctlPc = "check"
    /\ ctlPc' = IF exit_flag THEN "exited" ELSE "evaluate"
    /\ UNCHANGED << ctlOnly, control_loop_signal, relayVars, ctl_caught,
                    pending_wake, sig_returns >>

\* An except clause that lets the failure of remove_events through.
control_loop_except_narrow(kind) == IF kind = "remove_error" THEN "dead" ELSE "wait"

\* Lines 261-262: where the except clause leaves the thread.
control_loop_except(kind) == "wait"

\* Lines 256-262: get_active_events, do_control (event loop, remove_events,
\* toggle_relays), any exception going to line 261.
CtlEvaluate ==
    /\ ctlPc = "evaluate"
    /\ \E out \in {"fetch_error", "remove_error", "ok"},
          level \in EvalLevels, fail_at \in 0..NumRelays :
         IF out # "ok"
         THEN /\ ctlPc' = control_loop_except(out)
              /\ ctl_caught' = TRUE
              /\ UNCHANGED relayVars
         ELSE LET w == toggle_relays(relays, current_signal_level, level, fail_at) IN
              /\ relays' = w.relays
              /\ current_signal_level' = w.cur
              /\ ctlPc' = IF w.raised THEN control_loop_except("toggle") ELSE "wait"
              /\ ctl_caught' = w.raised
    /\ pending_wake' = FALSE
    /\ UNCHANGED << ctlOnly, control_loop_signal, sig_returns >>

\* Line 264 waits on _control_loop_signal alone: the wait returns before its
\* timeout exactly when that event is set.
CtlWaitSignalled == control_loop_signal

\* Line 181 waits on _exit alone.
PollWaitSignalled == exit_flag

\* Line 264: returns at the timeout, or earlier once the signal is set.
CtlWait ==
    /\ ctlPc = "wait"
    /\ ctlPc' = "clear"
    /\ sig_returns' = IF control_loop_signal THEN UpTo2(sig_returns) ELSE sig_returns
    /\ UNCHANGED << ctlOnly, control_loop_signal, relayVars, ctl_caught,
                    pending_wake >>

\* A clear that goes back to waiting instead of to the loop test.
CtlClear_rewait ==
    /\ ctlPc = "clear"
    /\ control_loop_signal' = FALSE
    /\ ctlPc' = "wait"
    /\ UNCHANGED << ctlOnly, relayVars, ctl_caught, pending_wake, sig_returns >>

\* Line 265.
CtlClear ==
    /\ ctlPc = "clear"
    /\ control_loop_signal' = FALSE
    /\ ctlPc' = "check"
    /\ UNCHANGED << ctlOnly, relayVars, ctl_caught, pending_wake, sig_returns >>

\* Nothing between the threads has happened yet.
RaceInit ==
    /\ pending_wake = FALSE
    /\ sig_returns = 0

\* The step-by-step variables before any evaluation.
EvalInit ==
    /\ ev_total = 0
    /\ ev_n = 0
    /\ highest_signal_val = 0
    /\ remove_events = <<>>
    /\ signal_level = None
    /\ ti = 0
    /\ act_levels = {}
    /\ ended_ids = {}
    /\ last_class = "none"
    /\ wr_prev = 0
    /\ wr_ops = 0
    /\ wr_state = "none"
    /\ wr_before = None
    /\ wr_failed = None
    /\ rd = None

\* ---------------------------------------------------------- specification
Init ==
    /\ poll_input \in PollIntervalInputs
    /\ start_thread \in BOOLEAN
    /\ vtn_base_uri \in BOOLEAN
    /\ vtn_poll_interval = None
    /\ exit_flag = FALSE
    /\ control_loop_signal = FALSE
    /\ apiPc = "new"
    /\ pollPc = "none"
    /\ ctlPc = "none"
    /\ relays \in RelayPatterns
    /\ current_signal_level = 0
    /\ ctl_caught = FALSE
    /\ EvalInit
    /\ NoCycle
    /\ RaceInit

Next ==
    \/ Construct
    \/ ExitSetSignal
    \/ ExitJoinControl
    \/ ExitJoinPoll
    \/ ExitSetExit
    \/ PollLoopCheck
    \/ PollQuery
    \/ PollNotify
    \/ PollSendReply
    \/ PollHttpError
    \/ PollWait
    \/ CtlGrace
    \/ CtlInitRead
    \/ CtlLoopCheck
    \/ CtlEvaluate
    \/ CtlWait
    \/ CtlClear

Spec == Init /\ [][Next]_vars

\* The steps of the thread 'oadr2.poll' (lines 143-147) and of the thread
\* 'oadr2.control' (lines 110-116).
poll_thread ==
    PollLoopCheck \/ PollQuery \/ PollNotify \/ PollSendReply \/ PollHttpError
        \/ PollWait
control_thread ==
    CtlGrace \/ CtlInitRead \/ CtlLoopCheck \/ CtlEvaluate \/ CtlWait \/ CtlClear

\* A client built with the default interval and start_thread=True.
InitStarted ==
    /\ Init
    /\ poll_input = IntIn(DEFAULT_VTN_POLL_INTERVAL)
    /\ start_thread

\* The started client with both threads scheduled fairly: a thread that can
\* take a step takes one. Every wait has a timeout (lines 181, 247, 264)
\* and every request one too (REQUEST_TIMEOUT, lines 202 and 236).
SpecFair == InitStarted /\ [][Next]_vars /\ WF_vars(poll_thread) /\ WF_vars(control_thread)


\* =========================================================================
\* The control thread alone, do_control and toggle_relays step by step.
\* =========================================================================

\* ------------------------------------------------------------- the events
\* An event as do_control sees it through event.*, check_target_info and
\* schedule.choose_interval: its id, the target check's answer, what
\* get_signals returns (None, or the levels of its signal tuples, in order)
\* and what choose_interval returns (None, a negative number or an index).
MaxIntervals == 1
RECURSIVE SeqsUpTo(_, _)
SeqsUpTo(S, n) ==
    IF n = 0 THEN {<<>>}
    ELSE LET shorter == SeqsUpTo(S, n - 1) IN
         shorter \cup {Append(q, x) : q \in {r \in shorter : Len(r) = n - 1}, x \in S}

SignalChoices == {None} \cup {Some(q) : q \in SeqsUpTo(RawLevels, MaxIntervals)}
IntervalChoices == {None} \cup {Some(i) : i \in (-1)..MaxIntervals}
EventsWithId(id) ==
    [id : {id}, target : BOOLEAN, signals : SignalChoices, interval : IntervalChoices]

\* Which call of one loop iteration raises, if any: an accessor of lines
\* 281-283, check_target_info (285), or choose_interval (298).
Faults == {"none", "accessor", "target", "choose"}

\* A target check whose answer is not acted on.
target_mismatch_never(e) == FALSE

\* Line 285: the event is ignored when the target check says no.
target_mismatch(e) == ~e.target

\* Line 316, and line 317 when float() returns; None when it raises.
level_of(raw) ==
    IF raw = None THEN Some(0)
    ELSE IF float(Val(raw)).ok THEN Some(float(Val(raw)).val) ELSE None

\* The loop iteration with line 317 keeping the latest level, not the highest.
do_control_event_latest(e, fault, acc) ==
    IF fault \in {"accessor", "target"} \/ ~e.target \/ e.signals = None
       \/ fault = "choose"
    THEN acc
    ELSE IF e.interval = None THEN [acc EXCEPT !.remove = Append(@, e.id)]
    ELSE IF Val(e.interval) < 0 \/ Val(e.interval) >= Len(Val(e.signals)) THEN acc
    ELSE LET lv == level_of(Val(e.signals)[Val(e.interval) + 1]) IN
         IF lv = None THEN acc ELSE [acc EXCEPT !.highest = Val(lv)]

\* The loop iteration with an except clause that starts the level over.
do_control_event_resetting(e, fault, acc) ==
    IF fault \in {"accessor", "target", "choose"} /\ (fault # "choose"
          \/ (e.target /\ e.signals # None))
    THEN [acc EXCEPT !.highest = 0]
    ELSE IF ~e.target \/ e.signals = None THEN acc
    ELSE IF e.interval = None THEN [acc EXCEPT !.remove = Append(@, e.id)]
    ELSE IF Val(e.interval) < 0 THEN acc
    ELSE IF Val(e.interval) >= Len(Val(e.signals)) THEN [acc EXCEPT !.highest = 0]
    ELSE LET lv == level_of(Val(e.signals)[Val(e.interval) + 1]) IN
         IF lv = None THEN [acc EXCEPT !.highest = 0]
         ELSE [acc EXCEPT !.highest = Max(Val(lv), @)]

\* One iteration of the loop of lines 279-320 on event e, from the
\* accumulators acc = [highest, remove]; an exception goes to line 319.
do_control_event(e, fault, acc) ==
    IF fault = "accessor" THEN acc
    ELSE IF fault = "target" THEN acc
    ELSE IF target_mismatch(e) THEN acc
    ELSE IF e.signals = None THEN acc
    ELSE IF fault = "choose" THEN acc
    ELSE IF e.interval = None
         THEN [acc EXCEPT !.remove = Append(@, e.id)]
    ELSE IF Val(e.interval) < 0 THEN acc
    ELSE IF Val(e.interval) >= Len(Val(e.signals)) THEN acc
    ELSE LET lv == level_of(Val(e.signals)[Val(e.interval) + 1]) IN
         IF lv = None THEN acc
         ELSE [acc EXCEPT !.highest = Max(Val(lv), @)]

\* ------------------------------------------- how the properties class events
\* "nomatch": the target check answered no ("nomatch_ended" when the event
\* has a signal sequence and its interval selection would be None).
\* "ended": target-matching, a
\* signal sequence, interval selection None.  "active": target-matching and
\* the selected interval exists with an absent or numeric level.
EventClass(e, fault) ==
    IF fault \in {"accessor", "target"} THEN "failed"
    ELSE IF ~e.target
         THEN IF e.signals # None /\ e.interval = None
              THEN "nomatch_ended" ELSE "nomatch"
    ELSE IF e.signals = None THEN "nosignals"
    ELSE IF fault = "choose" THEN "failed"
    ELSE IF e.interval = None THEN "ended"
    ELSE IF Val(e.interval) < 0 THEN "pending"
    ELSE IF Val(e.interval) + 1 > Len(Val(e.signals)) THEN "failed"
    ELSE LET raw == Val(e.signals)[Val(e.interval) + 1] IN
         IF raw # None /\ ~float(Val(raw)).ok THEN "failed" ELSE "active"

ActiveLevel(e) ==
    LET raw == Val(e.signals)[Val(e.interval) + 1] IN
    IF raw = None THEN 0 ELSE float(Val(raw)).val

\* ------------------------------------------------------------- the steps
stepUnchanged == << cfgVars, vtn_poll_interval, exit_flag, apiPc, pollPc,
                    control_loop_signal, obsVars >>

\* Line 258, and lines 277-278 of do_control.
CtlFetch ==
    /\ ctlPc = "evaluate"
    /\ \E fetched \in BOOLEAN, n \in 0..MaxEvents :
         IF fetched
         THEN /\ ctlPc' = "events"
              /\ ev_total' = n
              /\ UNCHANGED ctl_caught
         ELSE /\ ctlPc' = control_loop_except("fetch_error")
              /\ ev_total' = 0
              /\ ctl_caught' = TRUE
    /\ ev_n' = 0
    /\ highest_signal_val' = 0
    /\ remove_events' = <<>>
    /\ act_levels' = {}
    /\ ended_ids' = {}
    /\ last_class' = "none"
    /\ UNCHANGED << stepUnchanged, relayVars, signal_level, ti, wr_prev, wr_ops,
                    wr_state, wr_before, wr_failed, rd >>

\* Lines 279-320: one iteration.
CtlEvent ==
    /\ ctlPc = "events"
    /\ ev_n < ev_total
    /\ \E e \in EventsWithId(ev_n + 1), fault \in Faults :
         LET acc == do_control_event(e, fault,
                        [highest |-> highest_signal_val, remove |-> remove_events])
             class == EventClass(e, fault)
         IN  /\ highest_signal_val' = acc.highest
             /\ remove_events' = acc.remove
             /\ last_class' = class
             /\ act_levels' = IF class = "active"
                              THEN act_levels \cup {ActiveLevel(e)} ELSE act_levels
             /\ ended_ids' = IF class = "ended"
                             THEN ended_ids \cup {e.id} ELSE ended_ids
    /\ ev_n' = ev_n + 1
    /\ UNCHANGED << stepUnchanged, relayVars, ctlPc, ctl_caught, ev_total,
                    signal_level, ti, wr_prev, wr_ops, wr_state, wr_before,
                    wr_failed, rd >>

\* Line 322, then the call of line 326 and line 339.
CtlRemoveEvents ==
    /\ ctlPc = "events"
    /\ ev_n = ev_total
    /\ \E removed \in BOOLEAN :
         IF removed
         THEN /\ ctlPc' = "toggle"
              /\ signal_level' = Some(highest_signal_val)
              /\ wr_before' = IF wr_state = "returned" THEN signal_level ELSE None
              /\ wr_failed' = IF wr_state = "raised" THEN signal_level ELSE None
              /\ wr_state' = "running"
              /\ wr_prev' = current_signal_level
              /\ wr_ops' = 0
              /\ rd' = None
              /\ UNCHANGED ctl_caught
         ELSE /\ ctlPc' = control_loop_except("remove_error")
              /\ ctl_caught' = TRUE
              /\ UNCHANGED << signal_level, wr_before, wr_failed, wr_state,
                    wr_prev, wr_ops, rd >>
    /\ UNCHANGED << stepUnchanged, relayVars, ev_total, ev_n, highest_signal_val,
                    remove_events, ti, act_levels, ended_ids, last_class >>

\* The locals of do_control, dead once toggle_relays has its argument.
DropLocals ==
    /\ ev_total' = 0
    /\ ev_n' = 0
    /\ highest_signal_val' = 0
    /\ remove_events' = <<>>
    /\ act_levels' = {}
    /\ ended_ids' = {}
    /\ last_class' = "none"

\* A comparison that never finds the level unchanged.
same_level_never(level, cur) == FALSE

\* Line 340: the level is the one written last.
same_level(level, cur) == level = cur

\* Lines 340-341.
CtlToggleCheck ==
    /\ ctlPc = "toggle"
    /\ IF same_level(Val(signal_level), current_signal_level)
       THEN /\ ctlPc' = "wait"
            /\ wr_state' = "returned"
            /\ ctl_caught' = FALSE
       ELSE /\ ctlPc' = "toggle_set"
            /\ UNCHANGED << wr_state, ctl_caught >>
    /\ ti' = 0
    /\ DropLocals
    /\ UNCHANGED << stepUnchanged, relayVars, signal_level, wr_prev, wr_ops,
                    wr_before, wr_failed, rd >>

\* A write that stores the level before its control_set operations.
CtlToggleSet_caching ==
    /\ ctlPc = "toggle_set"
    /\ ti < NumRelays
    /\ wr_ops' = wr_ops + 1
    /\ current_signal_level' = Val(signal_level)
    /\ \E set_ok \in BOOLEAN :
         IF set_ok
         THEN /\ relays' = [relays EXCEPT ![ti + 1] = control_val(ti, Val(signal_level))]
              /\ ti' = ti + 1
              /\ UNCHANGED << ctlPc, wr_state, ctl_caught >>
         ELSE /\ ctlPc' = control_loop_except("toggle")
              /\ wr_state' = "raised"
              /\ ctl_caught' = TRUE
              /\ UNCHANGED << relays, ti >>
    /\ UNCHANGED << stepUnchanged, ev_total, ev_n,
                    highest_signal_val, remove_events, signal_level, act_levels,
                    ended_ids, last_class, wr_prev, wr_before, wr_failed, rd >>

\* Lines 343-345: one control_set operation, which may raise.
CtlToggleSet ==
    /\ ctlPc = "toggle_set"
    /\ ti < NumRelays
    /\ wr_ops' = wr_ops + 1
    /\ \E set_ok \in BOOLEAN :
         IF set_ok
         THEN /\ relays' = [relays EXCEPT ![ti + 1] = control_val(ti, Val(signal_level))]
              /\ ti' = ti + 1
              /\ UNCHANGED << ctlPc, wr_state, ctl_caught >>
         ELSE /\ ctlPc' = control_loop_except("toggle")
              /\ wr_state' = "raised"
              /\ ctl_caught' = TRUE
              /\ UNCHANGED << relays, ti >>
    /\ UNCHANGED << stepUnchanged, current_signal_level, ev_total, ev_n,
                    highest_signal_val, remove_events, signal_level, act_levels,
                    ended_ids, last_class, wr_prev, wr_before, wr_failed, rd >>

\* Line 347.
CtlToggleDone ==
    /\ ctlPc = "toggle_set"
    /\ ti = NumRelays
    /\ current_signal_level' = Val(signal_level)
    /\ wr_state' = "returned"
    /\ ctl_caught' = FALSE
    /\ ctlPc' = "wait"
    /\ UNCHANGED << stepUnchanged, relays, ev_total, ev_n,
                    highest_signal_val, remove_events, signal_level, ti, act_levels,
                    ended_ids, last_class, wr_prev, wr_ops, wr_before, wr_failed, rd >>

\* A call of get_current_relay_level (lines 358-363) between two evaluations.
ReadRelayLevel ==
    /\ ctlPc = "wait"
    /\ rd = None
    /\ \E fail_at \in 0..NumRelays :
         LET r == get_current_relay_level(relays, fail_at) IN
         /\ r.ok
         /\ rd' = Some(r.val)
    /\ UNCHANGED << stepUnchanged, relayVars, ctlPc, ctl_caught, stepVars,
                    act_levels, ended_ids, last_class, wr_prev, wr_ops, wr_state,
                    wr_before, wr_failed >>

\* Lines 258-326 up to the call of toggle_relays, in one step: the event
\* loop hands over one of the levels it can arrive at.
CtlDoControl ==
    /\ ctlPc = "evaluate"
    /\ \E out \in {"fetch_error", "remove_error", "ok"}, level \in EvalLevels :
         IF out = "ok"
         THEN /\ ctlPc' = "toggle"
              /\ signal_level' = Some(level)
              /\ wr_before' = IF wr_state = "returned" THEN signal_level ELSE None
              /\ wr_failed' = IF wr_state = "raised" THEN signal_level ELSE None
              /\ wr_state' = "running"
              /\ wr_prev' = current_signal_level
              /\ wr_ops' = 0
              /\ rd' = None
              /\ UNCHANGED ctl_caught
         ELSE /\ ctlPc' = control_loop_except(out)
              /\ ctl_caught' = TRUE
              /\ UNCHANGED << signal_level, wr_before, wr_failed, wr_state,
                    wr_prev, wr_ops, rd >>
    /\ UNCHANGED << stepUnchanged, relayVars, ev_total, ev_n, highest_signal_val,
                    remove_events, ti, act_levels, ended_ids, last_class >>

\* The control thread once started and past the wait of line 247.
InitControl ==
    /\ poll_input = IntIn(DEFAULT_VTN_POLL_INTERVAL)
    /\ start_thread = TRUE
    /\ vtn_base_uri = FALSE
    /\ vtn_poll_interval = Some(DEFAULT_VTN_POLL_INTERVAL)
    /\ exit_flag = FALSE
    /\ control_loop_signal = FALSE
    /\ apiPc = "ready"
    /\ pollPc = "wait"
    /\ ctlPc = "initread"
    /\ relays \in RelayPatterns
    /\ current_signal_level = 0
    /\ ctl_caught = FALSE
    /\ EvalInit
    /\ NoCycle
    /\ RaceInit

\* One evaluation: the first read, then do_control on the events fetched.
NextEval ==
    \/ CtlInitRead
    \/ CtlLoopCheck
    \/ CtlFetch
    \/ CtlEvent
    \/ CtlRemoveEvents
    \/ CtlToggleCheck
    \/ CtlToggleSet
    \/ CtlToggleDone

SpecEval == InitControl /\ [][NextEval]_vars

\* The control loop as the relays see it: evaluation after evaluation, each
\* writing a level.
NextRelay ==
    \/ CtlInitRead
    \/ CtlLoopCheck
    \/ CtlDoControl
    \/ CtlToggleCheck
    \/ CtlToggleSet
    \/ CtlToggleDone
    \/ CtlWait
    \/ CtlClear
    \/ ReadRelayLevel

SpecRelay == InitControl /\ [][NextRelay]_vars

\* Lines 343-345 for a level k in 0..N, all points written: the points
\* below k on, the others off.
IsPrefixPattern(rel) ==
    \E k \in 0..NumRelays : \A p \in Relays : rel[p] = control_val(p - 1, 2 * k)

\* The control loop started on relays whose pattern is one a complete
\* write leaves.
InitPrefix == InitControl /\ IsPrefixPattern(relays)

SpecPrefix == InitPrefix /\ [][NextRelay]_vars


\* =========================================================================
\* Properties
\* =========================================================================
MaxOf(S) == CHOOSE m \in S : \A x \in S : x <= m
IdsOf(q) == {q[i] : i \in 1..Len(q)}
\* ceil of a level kept in halves.
CeilOf(level) == (level + 1) \div 2
PrefixOn(k) == [p \in Relays |-> IF p <= k THEN 1 ELSE 0]
\* 0 when no point is on, else the highest point that is on (counted from 1).
HighestOn(rel) ==
    IF \A p \in Relays : rel[p] = 0 THEN 0
    ELSE CHOOSE p \in Relays : rel[p] = 1 /\ \A q \in Relays : q > p => rel[q] = 0

\* C1: every failure of a poll cycle is caught in that cycle, so the poll
\* thread leaves poll_vtn_loop only once the exit flag is set.
C1_PollLoopSupervised ==
    pollPc \in {"exited", "dead"} => exit_flag

\* C2: whatever a control evaluation raises, the step that evaluates leaves
\* the control thread at its wait, and the thread leaves its loop only from
\* the loop test with the exit flag set.
C2_ControlLoopSupervised ==
    [][ /\ (ctlPc = "evaluate" /\ ctlPc' # ctlPc) => ctlPc' = "wait"
        /\ (ctlPc' \in {"exited", "dead"} /\ ctlPc' # ctlPc)
              => (ctlPc = "check" /\ exit_flag /\ ctlPc' = "exited") ]_vars

\* An evaluation ended in the except clause and the loop is at the next one.
C2_Witness ==
    ctl_caught /\ ctlPc = "evaluate" /\ ~exit_flag

\* C3: when exit() has returned, the exit flag is set and both threads have
\* left their loops (so no query_vtn call starts afterwards).
C3_ShutdownQuiesces ==
    apiPc = "returned" =>
        /\ exit_flag
        /\ pollPc \in {"exited", "dead"}
        /\ ctlPc = "exited"

\* C4: a poll interval that int() rejects makes the constructor complete with
\* vtn_poll_interval = 300, never raise.
C4_BadIntervalDefaults ==
    (apiPc # "new" /\ ~int(poll_input).ok) =>
        /\ apiPc # "ctor_raised"
        /\ vtn_poll_interval = Some(DEFAULT_VTN_POLL_INTERVAL)

\* C5: neither the constructor nor exit() ever raises to its caller.
C5_NoApiException ==
    apiPc \notin {"ctor_raised", "exit_raised"}

\* C6: throughout the event loop, at the removal call and at the call of
\* toggle_relays, the level is the maximum of 0 and the levels of the active
\* intervals of the target-matching events, and the removal list holds
\* exactly the ids of the ended target-matching events, each once.
C6_Aggregation ==
    /\ ctlPc \in {"events", "toggle"} =>
          /\ highest_signal_val = MaxOf({0} \cup act_levels)
          /\ IdsOf(remove_events) = ended_ids
          /\ Len(remove_events) = Cardinality(ended_ids)
    /\ ctlPc = "toggle" => signal_level = Some(MaxOf({0} \cup act_levels))

\* Event 1 ended, event 2 active at level 5: toggle_relays gets 5, and the
\* removal list is event 1 alone.
C6_Witness ==
    /\ ctlPc = "toggle"
    /\ ev_n = 2
    /\ ended_ids = {1}
    /\ act_levels = {10}
    /\ remove_events = <<1>>
    /\ signal_level = Some(10)

\* C7: the loop iteration on an event whose target check answers no leaves
\* the level and the removal list as they were, whatever the event carries.
C7_NoMatchIgnored ==
    [][ (ev_n' = ev_n + 1 /\ last_class' \in {"nomatch", "nomatch_ended"})
            => (highest_signal_val' = highest_signal_val
                /\ remove_events' = remove_events) ]_vars

\* The last event of the batch failed the target check and would have ended;
\* nothing is listed for removal.
C7_Witness ==
    /\ ctlPc = "events"
    /\ ev_n = ev_total
    /\ ev_n > 0
    /\ last_class = "nomatch_ended"
    /\ remove_events = <<>>

\* C8: a toggle_relays call entered with the level equal to the cached one
\* issues no control_set operation; so does a call with the level of the call
\* before it, when that one returned.
C8_WriteDedup ==
    wr_state # "none" =>
        /\ (Val(signal_level) = wr_prev => wr_ops = 0)
        /\ (wr_before = signal_level => wr_ops = 0)

\* write(1.5) twice in a row: the second returned without an operation,
\* the relays being on.
C8_Witness ==
    /\ wr_state = "returned"
    /\ signal_level = Some(3)
    /\ wr_before = signal_level
    /\ wr_ops = 0
    /\ relays = PrefixOn(2)

\* C9: when toggle_relays has returned for a level L in [0, N], exactly the
\* points 0 .. ceil(L)-1 are on.
C9_WriteLeavesPrefix ==
    (wr_state = "returned" /\ Val(signal_level) <= 2 * NumRelays) =>
        relays = PrefixOn(CeilOf(Val(signal_level)))

\* C10: get_current_relay_level returns the highest point that is on (0 when
\* none is, N when all are); after a toggle_relays call that wrote the
\* pattern of a level L in [0, N] it returns ceil(L).
C10_ReadBack ==
    rd # None =>
        /\ Val(rd) = HighestOn(relays)
        /\ ((\A p \in Relays : relays[p] = 0) => Val(rd) = 0)
        /\ ((\A p \in Relays : relays[p] = 1) => Val(rd) = NumRelays)
        /\ (wr_state = "returned" /\ wr_ops > 0
            /\ Val(signal_level) <= 2 * NumRelays)
              => Val(rd) = CeilOf(Val(signal_level))

\* write(1.5) wrote both points of a pattern and the read returned 2.
C10_Witness ==
    /\ rd = Some(2)
    /\ wr_state = "returned"
    /\ wr_ops = NumRelays
    /\ signal_level = Some(3)

\* C11: no lost wake-up. While _exit is not set, once a poll cycle has set
\* the signal for an update no evaluation has fetched yet, the control
\* thread does not sit through a timeout of its wait before the next
\* evaluation: its wait ends only with the signal set, and after the clear
\* it goes through the loop test into an evaluation. The race of set
\* against clear costs no more than one return of the wait on the signal
\* for each set.
C11_NoLostWakeup ==
    [][ (~exit_flag /\ pending_wake) =>
          /\ (ctlPc = "wait" /\ ctlPc' # ctlPc) =>
                (control_loop_signal /\ ctlPc' = "clear")
          /\ (ctlPc = "clear" /\ ctlPc' # ctlPc) => ctlPc' = "check"
          /\ (ctlPc = "check" /\ ctlPc' # ctlPc /\ ~exit_flag') => ctlPc' = "evaluate"
          /\ sig_returns' <= 1 ]_vars

\* The race: the signal was set for an update and cleared before any fetch,
\* and the evaluation is about to begin.
C11_Witness ==
    /\ pending_wake
    /\ ~control_loop_signal
    /\ ctlPc = "check"
    /\ apiPc = "ready"
    /\ ~exit_flag

\* C12: an event that fails in the loop of do_control (an accessor, the
\* target check or the interval selection raising, an interval index past
\* the signals, a level that is no number) is skipped alone: the highest
\* level and the removal list stay what the other events made them, the
\* loop goes on, and the evaluation reaches remove_events and
\* toggle_relays with the level of the other events.
C12_EventFailureIsolated ==
    /\ [][ (ctlPc = "events" /\ ev_n' = ev_n + 1 /\ last_class' = "failed") =>
             /\ highest_signal_val' = highest_signal_val
             /\ remove_events' = remove_events
             /\ act_levels' = act_levels
             /\ ended_ids' = ended_ids
             /\ ctlPc' = "events" ]_vars
    /\ [][ (ctlPc = "events" /\ ev_n = ev_total /\ ctlPc' = "toggle") =>
             /\ signal_level' = Some(MaxOf({0} \cup act_levels))
             /\ IdsOf(remove_events) = ended_ids ]_vars

\* An active event at level 5 and then a failing one: toggle_relays is
\* called with 5.
C12_Witness ==
    /\ ctlPc = "toggle"
    /\ last_class = "failed"
    /\ ev_total = 2
    /\ act_levels = {10}
    /\ signal_level = Some(10)
    /\ wr_state = "running"

\* C13: a poll cycle whose response body does not parse, or whose payload
\* handler raises, ends at the wait with no reply sent and without having
\* set the signal; a response of unexpected content type is still
\* processed, so that with a reply it sets the signal and sends the reply.
C13_ParseFailureEndsCycle ==
    /\ q_out = "parse_error" =>
          /\ pollPc = "wait"
          /\ ~cycle_notified
          /\ cycle_replies = 0
          /\ r_uri = ""
    /\ (q_out = "reply" /\ ~q_ctype_ok /\ pollPc = "wait") =>
          (cycle_notified /\ cycle_replies = 1)

\* A cycle that failed to parse a response of the expected content type,
\* at its wait, the signal unset.
C13_Witness ==
    /\ q_out = "parse_error"
    /\ q_ctype_ok
    /\ pollPc = "wait"
    /\ ~control_loop_signal
    /\ ctlPc = "wait"

\* C14: in a poll cycle whose handler returned a reply the signal is set
\* before the reply is sent, the reply is sent once, to the uri the query
\* went to, and a failing send changes nothing about the signal; in a cycle
\* without a reply the signal is not set and nothing is sent.
C14_NotifyThenReply ==
    /\ [](/\ cycle_replies <= 1
          /\ cycle_replies = 1 =>
                (cycle_notified /\ q_out = "reply" /\ r_uri = q_uri /\ q_uri = event_uri)
          /\ cycle_notified => q_out = "reply"
          /\ pollPc = "send_reply" => (cycle_notified /\ cycle_replies = 0)
          /\ (q_out = "reply" /\ pollPc \in {"wait", "http_error_body", "dead"}) =>
                (cycle_notified /\ cycle_replies = 1)
          /\ q_out = "no_reply" =>
                (pollPc = "wait" /\ ~cycle_notified /\ cycle_replies = 0))
    /\ [][ (pollPc \in {"send_reply", "http_error_body"} /\ pollPc' # pollPc) =>
             (control_loop_signal' = control_loop_signal
              /\ cycle_notified' = cycle_notified) ]_vars

\* The send of the reply raised an HTTPError and the signal is still set.
C14_Witness ==
    /\ pollPc = "http_error_body"
    /\ q_out = "reply"
    /\ cycle_replies = 1
    /\ control_loop_signal
    /\ ctlPc = "wait"

\* C15: once _exit is set, both threads leave their loops, the poll thread
\* and the control thread each at the loop test after its wait; with _exit
\* set no query_vtn call and no evaluation is begun from a loop test, so a
\* thread runs at most the cycle it was already in.
C15_ShutdownLiveness ==
    /\ exit_flag ~> (pollPc \in {"exited", "dead"} /\ ctlPc = "exited")
    /\ [][ exit_flag =>
             /\ (pollPc = "check" /\ pollPc' # pollPc) => pollPc' = "exited"
             /\ (ctlPc = "check" /\ ctlPc' # ctlPc) => ctlPc' = "exited"
             /\ pollPc' = "query" => pollPc = "query"
             /\ ctlPc' = "evaluate" => ctlPc = "evaluate"
             /\ pollPc \in {"exited", "dead"} => pollPc' = pollPc
             /\ ctlPc = "exited" => ctlPc' = ctlPc ]_vars

\* _exit set, both threads out of their loops, the poll thread by its loop
\* test.
C15_Witness ==
    /\ exit_flag
    /\ pollPc = "exited"
    /\ ctlPc = "exited"
    /\ apiPc = "returned"

\* C16: the wait of the control thread returns before its timeout as soon
\* as _exit or the signal is set, and a control thread that wakes with
\* _exit set leaves without another evaluation; the wait of the poll
\* thread returns before its timeout exactly when _exit is set, whatever
\* the signal.
C16_WaitInterruptible ==
    /\ []((ctlPc = "wait" /\ (exit_flag \/ control_loop_signal)) => CtlWaitSignalled)
    /\ [](pollPc = "wait" => (PollWaitSignalled <=> exit_flag))
    /\ [][ (exit_flag /\ ctlPc' = "evaluate") => ctlPc = "evaluate" ]_vars

\* C17 as stated: _exit is never cleared once set; the signal is set only
\* by the poll thread (line 222) and cleared only by the control thread
\* (line 265); nothing else, exit() included, writes it.
C17_SignalOwnership ==
    [][ /\ exit_flag => exit_flag'
        /\ (~control_loop_signal /\ control_loop_signal') =>
              (pollPc = "notify" /\ pollPc' = "send_reply")
        /\ (control_loop_signal /\ ~control_loop_signal') =>
              (ctlPc = "clear" /\ ctlPc' = "check") ]_vars

\* C17 amended: _exit is never cleared once set and is set only by exit()
\* (line 160); the signal is set only by the poll thread (line 222) and by
\* exit() (line 156), and cleared only by the control thread (line 265);
\* the poll thread never clears it.
C17_SignalOwnershipWithExit ==
    [][ /\ exit_flag => exit_flag'
        /\ (~exit_flag /\ exit_flag') => (apiPc = "exit_set" /\ apiPc' = "returned")
        /\ (~control_loop_signal /\ control_loop_signal') =>
              \/ (pollPc = "notify" /\ pollPc' = "send_reply")
              \/ (apiPc \in {"ready", "returned"} /\ apiPc' = "exit_join_control")
        /\ (control_loop_signal /\ ~control_loop_signal') =>
              (ctlPc = "clear" /\ ctlPc' = "check")
        /\ pollPc' # pollPc => control_loop_signal' \/ ~control_loop_signal ]_vars

\* exit() has set the signal of a client whose poll thread never sets it
\* (no VTN base uri).
C17_Witness ==
    /\ apiPc = "exit_join_control"
    /\ control_loop_signal
    /\ ~vtn_base_uri
    /\ ~exit_flag

\* C18: started on a pattern with the points on forming a prefix from
\* index 0, the relays keep such a pattern at every moment of every
\* sequence of toggle_relays calls, each control_set being one step, a call
\* that raises part-way included.
C18_PrefixAlways == IsPrefixPattern(relays)

\* C19: once __init__ has returned, whatever vtn_poll_interval was given,
\* the poll interval is a positive integer: the default when the input was
\* not usable.
C19_PollIntervalPositive ==
    apiPc = "ready" =>
        /\ vtn_poll_interval # None
        /\ Val(vtn_poll_interval) > 0
        /\ (~int(poll_input).ok \/ int(poll_input).val <= 0) =>
              Val(vtn_poll_interval) = DEFAULT_VTN_POLL_INTERVAL

\* C20: current_signal_level moves to the level of a toggle_relays call
\* only when the call has written every control point: while the call is
\* writing, and after it raised part-way, the cached level is the one from
\* before the call; a call that returned after writing wrote all points
\* and left its level cached; and the call after one that raised, made
\* with the same level, does not return early at line 340 but writes again
\* from the first point.
C20_CacheAfterCompleteWrite ==
    /\ [](/\ wr_state \in {"running", "raised"} => current_signal_level = wr_prev
          /\ wr_state = "raised" =>
                (wr_ops \in 1..NumRelays /\ current_signal_level # Val(signal_level))
          /\ wr_state = "returned" =>
                (current_signal_level = Val(signal_level) /\ wr_ops \in {0, NumRelays})
          /\ (wr_state = "returned" /\ wr_failed = signal_level) => wr_ops = NumRelays)
    /\ [][ (ctlPc = "toggle" /\ ctlPc' # ctlPc /\ wr_failed = signal_level) =>
             (ctlPc' = "toggle_set" /\ ti' = 0) ]_vars

\* toggle_relays(1) raised at its second control_set; the next call, again
\* with 1, wrote both points and stored the level.
C20_Witness ==
    /\ wr_state = "returned"
    /\ wr_failed = Some(2)
    /\ signal_level = Some(2)
    /\ wr_ops = NumRelays
    /\ current_signal_level = 2

====
